---- MODULE Spec2Model ----
(***************************************************************************)
(* Model of fn_keys_helper.py: the F-key reference window (FnKeyWindow),    *)
(* its edit dialog (SettingsDialog) and the JSON config file behind them.  *)
(*                                                                         *)
(* A Python str is a sequence of one-character strings.  The config file   *)
(* is a sequence of characters as well, so json.dump and json.load are     *)
(* modelled character by character.                                        *)
(*                                                                         *)
(* Characters of the files considered: the structural characters, the      *)
(* quote, the backslash, blank and newline, digits, and letters.  Outside  *)
(* a string literal the literals NaN, Infinity, -Infinity, negative        *)
(* numbers and floats are not modelled (the characters N, I, -, ., e, E    *)
(* never occur outside a string literal in a file of this model), nor are  *)
(* the escapes \b and \uXXXX inside one.                                   *)
(*                                                                         *)
(* A file that exists can be read; a write can fail (save_fn_keys_failed). *)
(* An exception that leaves a slot ends the process, as PyQt5 from version  *)
(* 5.5 on does; so does one that leaves FnKeyWindow.__init__.               *)
(***************************************************************************)
EXTENDS Integers, Sequences, FiniteSets, TLC

VARIABLES
    file,        \* the config file: [exists, text]
    phase,       \* "Starting" | "Showing" | "EditingOpen" | "Terminated" | "Crashed"
    fn_keys,     \* FnKeyWindow.fn_keys
    key_labels,  \* FnKeyWindow.key_labels, in layout order: <<[k, text]>>
    dlg,         \* the SettingsDialog last constructed: [fn_keys, edits, result]
    loaded       \* what the last call of load_fn_keys returned

vars == <<file, phase, fn_keys, key_labels, dlg, loaded>>

-----------------------------------------------------------------------------
(* Python values, as json.load builds them *)

MkStr(s) == [t |-> "str", s |-> s, items |-> <<>>]

MkInt(digits) == [t |-> "int", s |-> digits, items |-> <<>>]

PyNone == [t |-> "none", s |-> <<"N","o","n","e">>, items |-> <<>>]

PyTrue == [t |-> "bool", s |-> <<"T","r","u","e">>, items |-> <<>>]

PyFalse == [t |-> "bool", s |-> <<"F","a","l","s","e">>, items |-> <<>>]

MkList(xs) == [t |-> "list", s |-> <<>>, items |-> xs]

MkDict(xs) == [t |-> "dict", s |-> <<>>, items |-> xs]

Item(k, v) == [k |-> k, v |-> v]

IsDict(v) == v.t = "dict"

\* dict.keys(), in insertion order
Keys(d) == [i \in 1..Len(d.items) |-> d.items[i].k]

HasKey(d, k) == \E i \in 1..Len(d.items) : d.items[i].k = k

\* d[k], for a key d holds
Get(d, k) == d.items[CHOOSE i \in 1..Len(d.items) : d.items[i].k = k].v

\* d[k] = v: a key already held keeps its place, a new one goes last
DictSet(d, k, v) ==
    IF HasKey(d, k)
    THEN MkDict([i \in 1..Len(d.items) |->
                    IF d.items[i].k = k THEN Item(k, v) ELSE d.items[i]])
    ELSE MkDict(Append(d.items, Item(k, v)))

RECURSIVE DictFromPairs(_, _)
\* dict(pairs)
DictFromPairs(pairs, d) ==
    IF pairs = <<>> THEN d
    ELSE DictFromPairs(Tail(pairs), DictSet(d, Head(pairs).k, Head(pairs).v))

\* True == 1 and False == 0
AsNumber(v) ==
    IF v.t = "bool" THEN (IF v = PyTrue THEN <<"1">> ELSE <<"0">>) ELSE v.s

RECURSIVE PyEq(_, _)
\* a == b in Python: dicts compare without regard to order
PyEq(a, b) ==
    IF a.t \in {"int", "bool"} /\ b.t \in {"int", "bool"}
    THEN AsNumber(a) = AsNumber(b)
    ELSE /\ a.t = b.t
         /\ a.s = b.s
         /\ Len(a.items) = Len(b.items)
         /\ IF a.t = "dict"
            THEN \A i \in 1..Len(a.items) :
                     /\ HasKey(b, a.items[i].k)
                     /\ PyEq(a.items[i].v, Get(b, a.items[i].k))
            ELSE \A i \in 1..Len(a.items) : PyEq(a.items[i].v, b.items[i].v)

\* bool(v), the test of `if desc`
Truthy(v) ==
    CASE v.t = "str"  -> v.s # <<>>
      [] v.t = "int"  -> v.s # <<"0">>
      [] v.t = "none" -> FALSE
      [] v.t = "bool" -> v = PyTrue
      [] OTHER        -> v.items # <<>>

-----------------------------------------------------------------------------
(* json.dump(fn_keys, f, indent=2) *)

indent == 2

RECURSIVE Spaces(_)
Spaces(n) == IF n = 0 THEN <<>> ELSE <<" ">> \o Spaces(n - 1)

\* ESCAPE_DCT of json.encoder, for one character
EscapeChar(c) ==
    CASE c = "\"" -> <<"\\", "\"">>
      [] c = "\\" -> <<"\\", "\\">>
      [] c = "\n" -> <<"\\", "n">>
      [] c = "\r" -> <<"\\", "r">>
      [] c = "\t" -> <<"\\", "t">>
      [] c = "\f" -> <<"\\", "f">>
      [] OTHER    -> <<c>>

RECURSIVE EscapeAll(_)
EscapeAll(s) == IF s = <<>> THEN <<>> ELSE EscapeChar(Head(s)) \o EscapeAll(Tail(s))

\* py_encode_basestring_ascii
encode_basestring(s) == <<"\"">> \o EscapeAll(s) \o <<"\"">>

RECURSIVE EncodePairs(_, _)
\* the loop of _iterencode_dict over a dict of str values, one level deep
EncodePairs(items, first) ==
    IF items = <<>> THEN <<>>
    ELSE (IF first THEN <<"\n">> \o Spaces(indent) ELSE <<",", "\n">> \o Spaces(indent))
         \o encode_basestring(Head(items).k)
         \o <<":", " ">>
         \o encode_basestring(Head(items).v.s)
         \o EncodePairs(Tail(items), FALSE)

\* the text json.dump writes for a dict from str to str
json_dump(d) ==
    IF d.items = <<>> THEN <<"{", "}">>
    ELSE <<"{">> \o EncodePairs(d.items, TRUE) \o <<"\n", "}">>

-----------------------------------------------------------------------------
(* json.load(f) *)

Fail == [ok |-> FALSE, val |-> PyNone, end |-> 0]

Ok(v, e) == [ok |-> TRUE, val |-> v, end |-> e]

\* s[i:i+1]
At(s, i) == IF i >= 1 /\ i <= Len(s) THEN s[i] ELSE ""

WHITESPACE == {" ", "\t", "\n", "\r"}

Digits == {"0", "1", "2", "3", "4", "5", "6", "7", "8", "9"}

ControlChars == {"\t", "\n", "\r", "\f"}

RECURSIVE SkipWs(_, _)
\* WHITESPACE.match(s, i).end()
SkipWs(s, i) == IF At(s, i) \in WHITESPACE THEN SkipWs(s, i + 1) ELSE i

Matches(s, i, lit) ==
    /\ i + Len(lit) - 1 <= Len(s)
    /\ SubSeq(s, i, i + Len(lit) - 1) = lit

\* BACKSLASH of json.decoder
IsEscape(c) == c \in {"\"", "\\", "/", "n", "r", "t", "f"}

Unescape(c) ==
    CASE c = "n" -> "\n"
      [] c = "r" -> "\r"
      [] c = "t" -> "\t"
      [] c = "f" -> "\f"
      [] OTHER   -> c

RECURSIVE scanstring(_, _, _)
\* py_scanstring(s, end, strict=True): i is the place after the opening quote
scanstring(s, i, acc) ==
    LET c == At(s, i) IN
    IF c = "" THEN Fail                                  \* unterminated string
    ELSE IF c = "\"" THEN Ok(MkStr(acc), i + 1)
    ELSE IF c \in ControlChars THEN Fail                 \* invalid control character
    ELSE IF c = "\\"
         THEN IF IsEscape(At(s, i + 1))
              THEN scanstring(s, i + 2, Append(acc, Unescape(At(s, i + 1))))
              ELSE Fail                                  \* unterminated, or invalid \escape
         ELSE scanstring(s, i + 1, Append(acc, c))

RECURSIVE DigitsEnd(_, _)
DigitsEnd(s, i) == IF At(s, i) \in Digits THEN DigitsEnd(s, i + 1) ELSE i

\* NUMBER_RE, the integers without a sign: 0 | [1-9][0-9]*
ScanNumber(s, i) ==
    IF At(s, i) = "0" THEN Ok(MkInt(<<"0">>), i + 1)
    ELSE LET e == DigitsEnd(s, i) IN Ok(MkInt(SubSeq(s, i, e - 1)), e)

RECURSIVE scan_once(_, _)
RECURSIVE ObjectLoop(_, _, _)
RECURSIVE ArrayLoop(_, _, _)

\* JSONObject(s_and_end, ...): i is the place after the brace
JSONObject(s, i) ==
    LET j == SkipWs(s, i) IN
    IF At(s, j) = "}" THEN Ok(MkDict(<<>>), j + 1)
    ELSE IF At(s, j) # "\"" THEN Fail                   \* expecting property name
    ELSE ObjectLoop(s, j + 1, <<>>)

\* the while True loop of JSONObject: i is the place after a key's opening quote
ObjectLoop(s, i, pairs) ==
    LET key == scanstring(s, i, <<>>) IN
    IF ~key.ok THEN Fail
    ELSE LET c == SkipWs(s, key.end) IN
         IF At(s, c) # ":" THEN Fail                    \* expecting ':' delimiter
         ELSE LET value == scan_once(s, SkipWs(s, c + 1)) IN
              IF ~value.ok THEN Fail                    \* expecting value
              ELSE LET all == Append(pairs, Item(key.val.s, value.val))
                       n   == SkipWs(s, value.end)
                   IN  IF At(s, n) = "}"
                       THEN Ok(DictFromPairs(all, MkDict(<<>>)), n + 1)
                       ELSE IF At(s, n) # "," THEN Fail \* expecting ',' delimiter
                       ELSE LET q == SkipWs(s, n + 1) IN
                            IF At(s, q) # "\"" THEN Fail \* expecting property name
                            ELSE ObjectLoop(s, q + 1, all)

\* JSONArray(s_and_end, ...): i is the place after the bracket
JSONArray(s, i) ==
    LET j == SkipWs(s, i) IN
    IF At(s, j) = "]" THEN Ok(MkList(<<>>), j + 1)
    ELSE ArrayLoop(s, j, <<>>)

\* the while True loop of JSONArray
ArrayLoop(s, i, values) ==
    LET value == scan_once(s, i) IN
    IF ~value.ok THEN Fail                              \* expecting value
    ELSE LET all == Append(values, Item(<<>>, value.val))
             n   == SkipWs(s, value.end)
         IN  IF At(s, n) = "]" THEN Ok(MkList(all), n + 1)
             ELSE IF At(s, n) # "," THEN Fail           \* expecting ',' delimiter
             ELSE ArrayLoop(s, SkipWs(s, n + 1), all)

\* _scan_once(string, idx) of json.scanner
scan_once(s, i) ==
    LET c == At(s, i) IN
    CASE c = "\""      -> scanstring(s, i + 1, <<>>)
      [] c = "{"       -> JSONObject(s, i + 1)
      [] c = "["       -> JSONArray(s, i + 1)
      [] c = "n" /\ Matches(s, i, <<"n","u","l","l">>)     -> Ok(PyNone, i + 4)
      [] c = "t" /\ Matches(s, i, <<"t","r","u","e">>)     -> Ok(PyTrue, i + 4)
      [] c = "f" /\ Matches(s, i, <<"f","a","l","s","e">>) -> Ok(PyFalse, i + 5)
      [] c \in Digits  -> ScanNumber(s, i)
      [] OTHER         -> Fail

\* JSONDecoder.decode(s): one value, blanks around it, nothing after it
json_load(s) ==
    LET r == scan_once(s, SkipWs(s, 1)) IN
    IF r.ok /\ SkipWs(s, r.end) = Len(s) + 1
    THEN [ok |-> TRUE, val |-> r.val]
    ELSE [ok |-> FALSE, val |-> PyNone]                 \* JSONDecodeError

-----------------------------------------------------------------------------
(* str(), repr() and the text of a row *)

ReprChar(c, q) ==
    CASE c = "\\" -> <<"\\", "\\">>
      [] c = q    -> <<"\\", q>>
      [] c = "\n" -> <<"\\", "n">>
      [] c = "\r" -> <<"\\", "r">>
      [] c = "\t" -> <<"\\", "t">>
      [] c = "\f" -> <<"\\", "x", "0", "c">>
      [] OTHER    -> <<c>>

RECURSIVE ReprChars(_, _)
ReprChars(s, q) == IF s = <<>> THEN <<>> ELSE ReprChar(Head(s), q) \o ReprChars(Tail(s), q)

\* repr(s) of a str
ReprStr(s) ==
    LET q == IF (\E i \in 1..Len(s) : s[i] = "'") /\ ~(\E i \in 1..Len(s) : s[i] = "\"")
             THEN "\"" ELSE "'"
    IN  <<q>> \o ReprChars(s, q) \o <<q>>

RECURSIVE PyRepr(_)
RECURSIVE ReprItems(_, _, _)

ReprItems(items, isDict, first) ==
    IF items = <<>> THEN <<>>
    ELSE (IF first THEN <<>> ELSE <<",", " ">>)
         \o (IF isDict THEN ReprStr(Head(items).k) \o <<":", " ">> ELSE <<>>)
         \o PyRepr(Head(items).v)
         \o ReprItems(Tail(items), isDict, FALSE)

\* repr(v)
PyRepr(v) ==
    CASE v.t = "str"  -> ReprStr(v.s)
      [] v.t = "list" -> <<"[">> \o ReprItems(v.items, FALSE, TRUE) \o <<"]">>
      [] v.t = "dict" -> <<"{">> \o ReprItems(v.items, TRUE, TRUE) \o <<"}">>
      [] OTHER        -> v.s

\* f"{desc}"
Format(v) == IF v.t \in {"list", "dict"} THEN PyRepr(v) ELSE v.s

NoFunction == <<"(","N","o"," ","f","u","n","c","t","i","o","n",")">>

RowHead(key) == <<"<","b",">">> \o key \o <<":","<","/","b",">"," ">>

\* f"<b>{key}:</b> {desc}" if desc else f"<b>{key}:</b> (No function)"
LabelText(key, desc) ==
    RowHead(key) \o (IF Truthy(desc) THEN Format(desc) ELSE NoFunction)

-----------------------------------------------------------------------------
(* The configuration store *)

default_keys ==
    MkDict(<<
       Item(<<"F","1">>,
            MkStr(<<"D","i","m"," ","S","c","r","e","e","n">>)),
       Item(<<"F","2">>,
            MkStr(<<"B","r","i","g","h","t","e","n"," ","S","c","r","e","e","n">>)),
       Item(<<"F","3">>,
            MkStr(<<"?","?">>)),
       Item(<<"F","4">>,
            MkStr(<<"?">>)),
       Item(<<"F","5">>,
            MkStr(<<"D","i","m"," ","k","e","y","b","o","a","r","d"," ","L","E","D">>)),
       Item(<<"F","6">>,
            MkStr(<<"B","r","i","g","h","t","e","n"," ","k","e","y","b","o","a","r","d"," ","L","E","D">>)),
       Item(<<"F","7">>,
            MkStr(<<"R","e","w","i","n","d">>)),
       Item(<<"F","8">>,
            MkStr(<<"P","l","a","y","/","P","a","u","s","e">>)),
       Item(<<"F","9">>,
            MkStr(<<"F","a","s","t","f","o","r","w","a","r","d">>)),
       Item(<<"F","1","0">>,
            MkStr(<<"M","u","t","e">>)),
       Item(<<"F","1","1">>,
            MkStr(<<"L","o","w","e","r"," ","V","o","l","u","m","e">>)),
       Item(<<"F","1","2">>,
            MkStr(<<"I","n","c","r","e","a","s","e"," ","V","o","l","u","m","e">>)) >>)

Absent == [exists |-> FALSE, text |-> <<>>]

Holding(text) == [exists |-> TRUE, text |-> text]

load_fn_keys_missing_is_empty(f) ==
    IF f.exists
    THEN LET r == json_load(f.text) IN
         IF r.ok THEN r.val ELSE default_keys
    ELSE MkDict(<<>>)

\* FnKeyWindow.load_fn_keys, reading file f
load_fn_keys(f) ==
    IF f.exists
    THEN LET r == json_load(f.text) IN
         IF r.ok THEN r.val ELSE default_keys
    ELSE default_keys

save_fn_keys_appending(f, d) == Holding(f.text \o json_dump(d))

\* FnKeyWindow.save_fn_keys when every write succeeds: open(config_file, "w")
\* drops what file f held
save_fn_keys(f, d) == Holding(json_dump(d))

MaxCut == 2

Min(a, b) == IF a < b THEN a ELSE b

\* FnKeyWindow.save_fn_keys when open() or a write raises OSError: the file is as
\* it was (open failed), or holds the start of the text (a write failed)
save_fn_keys_failed(f, d) ==
    {f} \cup { Holding(SubSeq(json_dump(d), 1, n)) :
                 n \in 0..Min(MaxCut, Len(json_dump(d)) - 1) }

-----------------------------------------------------------------------------
(* The window and the dialog *)

NoDialog == [fn_keys |-> MkDict(<<>>), edits |-> <<>>, result |-> "None"]

make_key_labels_reversed(d) ==
    [i \in 1..Len(d.items) |->
        [k    |-> d.items[Len(d.items) + 1 - i].k,
         text |-> LabelText(d.items[Len(d.items) + 1 - i].k,
                            d.items[Len(d.items) + 1 - i].v)]]

\* FnKeyWindow.__init__, the loop that builds key_labels and the rows
make_key_labels(d) ==
    [i \in 1..Len(d.items) |->
        [k |-> d.items[i].k, text |-> LabelText(d.items[i].k, d.items[i].v)]]

update_key_labels_stale(labels, d) == labels

\* FnKeyWindow.update_key_labels
update_key_labels(labels, d) ==
    [i \in 1..Len(labels) |->
        [k    |-> labels[i].k,
         text |-> LabelText(labels[i].k,
                            IF HasKey(d, labels[i].k) THEN Get(d, labels[i].k)
                            ELSE MkStr(<<>>))]]

\* QLineEdit(desc) takes a str (the text of the field) or None (read as the
\* parent argument: an empty field); for any other value it raises TypeError
AcceptedByQLineEdit(v) == v.t \in {"str", "none"}

\* QLineEdit(desc).text()
FieldText(v) == IF v.t = "str" THEN v.s ELSE <<>>

\* SettingsDialog.__init__: the copy of the map and one QLineEdit per entry
SettingsDialog(d) ==
    [fn_keys |-> d,
     edits   |-> [i \in 1..Len(d.items) |->
                     Item(d.items[i].k, FieldText(d.items[i].v))],
     result  |-> "None"]

get_updated_keys_changed_only(dialog) ==
    LET changed(e) == MkStr(e.v) # Get(dialog.fn_keys, e.k)
        kept == SelectSeq(dialog.edits, changed)
    IN  MkDict([i \in 1..Len(kept) |-> Item(kept[i].k, MkStr(kept[i].v))])

\* SettingsDialog.get_updated_keys
get_updated_keys(dialog) ==
    MkDict([i \in 1..Len(dialog.edits) |->
               Item(dialog.edits[i].k, MkStr(dialog.edits[i].v))])

\* the texts a user types into a field
Texts == { <<>>, <<"a">>, <<"a", "\"", "\\">> }

\* the user types into the first MaxField fields of the dialog
MaxField == 2

EmptyObjectText ==
    <<"{","}">>

SwappedText ==
    <<"{","\"","F","2","\"",":","\"","a","\"",",","\"","F","1","\"",":","\"","\"","}">>

DuplicateKeyText ==
    <<"{","\"","F","1","\"",":","\"","a","\"",",","\"","F","2","\"",":","\"","\"",",","\"","F","1","\"",":","\"","\"","}">>

OtherKeysText ==
    <<"{","\"","a","\"",":","\"","a","\"",",","\"","\"",":","\"","\\","\"","\\","\\","\"","}">>

ZeroValueText ==
    <<"{","\"","F","1","\"",":","0","}">>

NumberValueText ==
    <<"{","\"","F","1","\"",":","1","2",",","\"","F","2","\"",":","\"","a","\"","}">>

NullValueText ==
    <<"{","\"","F","1","\"",":","n","u","l","l",",","\"","F","2","\"",":","\"","a","\"","}">>

ListValueText ==
    <<"{","\"","F","1","\"",":","[","\"","a","\"",",","0","]",",","\"","F","2","\"",":","[","]","}">>

ListText ==
    <<"[","\"","a","\"","]">>

EmptyListText ==
    <<"[","]">>

StringText ==
    <<"\"","F","1","\"">>

NumberText ==
    <<"0">>

NullText ==
    <<"n","u","l","l">>

TrueText ==
    <<"t","r","u","e">>

TrailingCommaText ==
    <<"{","\"","F","1","\"",":","\"","a","\"",",","}">>

ExtraDataText ==
    <<"{","\"","F","1","\"",":","\"","a","\"","}"," ","0">>

BadEscapeText ==
    <<"{","\"","F","1","\"",":","\"","\\","a","\"","}">>


\* the text the program itself saves for {"F1": "a"}
SavedText == json_dump(MkDict(<<Item(<<"F","1">>, MkStr(<<"a">>))>>))

\* that text cut short, at every place
TruncatedTexts == { SubSeq(SavedText, 1, n) : n \in 0..(Len(SavedText) - 1) }

\* texts json.load raises on
UnparseableTexts == TruncatedTexts \cup {TrailingCommaText, ExtraDataText, BadEscapeText}

\* JSON texts whose value is not an object
NonObjectTexts == {ListText, EmptyListText, StringText, NumberText, NullText, TrueText}

\* objects, from str to str
StringMapTexts == {SavedText, EmptyObjectText, SwappedText, DuplicateKeyText, OtherKeysText}

\* objects holding a value that is not a str
MixedMapTexts == {ZeroValueText, NumberValueText, NullValueText, ListValueText}

InitialFiles ==
    {Absent} \cup { Holding(t) : t \in UnparseableTexts \cup NonObjectTexts
                                      \cup StringMapTexts \cup MixedMapTexts }

Init ==
    /\ file \in InitialFiles
    /\ phase = "Starting"
    /\ fn_keys = MkDict(<<>>)
    /\ key_labels = <<>>
    /\ dlg = NoDialog
    /\ loaded = PyNone

\* FnKeyWindow.__init__ and window.show(): a value without .items() raises
\* AttributeError and main() ends
Start ==
    /\ phase = "Starting"
    /\ loaded' = load_fn_keys(file)
    /\ fn_keys' = loaded'
    /\ IF IsDict(loaded')
       THEN /\ key_labels' = make_key_labels(loaded')
            /\ phase' = "Showing"
       ELSE /\ key_labels' = <<>>
            /\ phase' = "Crashed"
    /\ UNCHANGED <<file, dlg>>

\* FnKeyWindow.show_settings up to dialog.exec_(): a TypeError raised by
\* QLineEdit(desc) leaves the slot, which ends the process
ShowSettings ==
    /\ phase = "Showing"
    /\ IF \A i \in 1..Len(fn_keys.items) : AcceptedByQLineEdit(fn_keys.items[i].v)
       THEN /\ dlg' = SettingsDialog(fn_keys)
            /\ phase' = "EditingOpen"
       ELSE /\ dlg' = dlg
            /\ phase' = "Crashed"
    /\ UNCHANGED <<file, fn_keys, key_labels, loaded>>

\* the user replaces the text of field i by t
TypeText(i, t) ==
    /\ phase = "EditingOpen"
    /\ i \in 1..Min(MaxField, Len(dlg.edits))
    /\ dlg' = [dlg EXCEPT !.edits[i].v = t]
    /\ UNCHANGED <<file, phase, fn_keys, key_labels, loaded>>

Accept_catching ==
    /\ phase = "EditingOpen"
    /\ dlg' = [dlg EXCEPT !.result = "Accepted"]
    /\ fn_keys' = get_updated_keys(dlg)
    /\ \/ file' = save_fn_keys(file, fn_keys')
       \/ file' \in save_fn_keys_failed(file, fn_keys')
    /\ key_labels' = update_key_labels(key_labels, fn_keys')
    /\ phase' = "Showing"
    /\ UNCHANGED loaded

Accept_saving_first ==
    /\ phase = "EditingOpen"
    /\ dlg' = [dlg EXCEPT !.result = "Accepted"]
    /\ fn_keys' = get_updated_keys(dlg)
    /\ \/ /\ file' = save_fn_keys(file, fn_keys)
          /\ key_labels' = update_key_labels(key_labels, fn_keys')
          /\ phase' = "Showing"
       \/ /\ file' \in save_fn_keys_failed(file, fn_keys)
          /\ key_labels' = key_labels
          /\ phase' = "Crashed"
    /\ UNCHANGED loaded

\* Save is pressed: dialog.exec_() returns Accepted and show_settings goes on
Accept ==
    /\ phase = "EditingOpen"
    /\ dlg' = [dlg EXCEPT !.result = "Accepted"]
    /\ fn_keys' = get_updated_keys(dlg)
    /\ \/ /\ file' = save_fn_keys(file, fn_keys')
          /\ key_labels' = update_key_labels(key_labels, fn_keys')
          /\ phase' = "Showing"
       \/ /\ file' \in save_fn_keys_failed(file, fn_keys')
          /\ key_labels' = key_labels
          /\ phase' = "Crashed"
    /\ UNCHANGED loaded

Reject_applying ==
    /\ phase = "EditingOpen"
    /\ dlg' = [dlg EXCEPT !.result = "Rejected"]
    /\ fn_keys' = get_updated_keys(dlg)
    /\ file' = save_fn_keys(file, fn_keys')
    /\ key_labels' = update_key_labels(key_labels, fn_keys')
    /\ phase' = "Showing"
    /\ UNCHANGED loaded

\* Cancel is pressed, or Escape in the dialog: dialog.exec_() returns Rejected
Reject ==
    /\ phase = "EditingOpen"
    /\ dlg' = [dlg EXCEPT !.result = "Rejected"]
    /\ phase' = "Showing"
    /\ UNCHANGED <<file, fn_keys, key_labels, loaded>>

Dismiss_anywhere ==
    /\ phase \in {"Showing", "EditingOpen"}
    /\ phase' = "Terminated"
    /\ UNCHANGED <<file, fn_keys, key_labels, dlg, loaded>>

\* FnKeyWindow.mousePressEvent, or the Escape shortcut: self.close()
Dismiss ==
    /\ phase = "Showing"
    /\ phase' = "Terminated"
    /\ UNCHANGED <<file, fn_keys, key_labels, dlg, loaded>>

Next ==
    \/ Start
    \/ ShowSettings
    \/ \E i \in 1..MaxField, t \in Texts : TypeText(i, t)
    \/ Accept
    \/ Reject
    \/ Dismiss

Spec == Init /\ [][Next]_vars

-----------------------------------------------------------------------------
(* save_fn_keys(m) followed by load_fn_keys(), for any map m and any file *)

RoundTripKeys == { <<"F","1">>, <<>>, <<"\"","\\">> }

MaxKeys == 2

\* the dicts from str to str of at most MaxKeys entries, in every order
RoundTripMaps ==
    { MkDict([i \in 1..Len(f) |-> Item(f[i][1], MkStr(f[i][2]))]) :
        f \in { g \in UNION { [1..n -> RoundTripKeys \X Texts] : n \in 0..MaxKeys } :
                  \A i, j \in 1..Len(g) : i # j => g[i][1] # g[j][1] } }

StoreInit ==
    /\ file \in InitialFiles
    /\ phase = "Saving"
    /\ fn_keys \in RoundTripMaps
    /\ key_labels = <<>>
    /\ dlg = NoDialog
    /\ loaded = PyNone

\* save_fn_keys(fn_keys)
StoreSave ==
    /\ phase = "Saving"
    /\ \/ /\ file' = save_fn_keys(file, fn_keys)
          /\ phase' = "Loading"
       \/ /\ file' \in save_fn_keys_failed(file, fn_keys)
          /\ phase' = "Crashed"
    /\ UNCHANGED <<fn_keys, key_labels, dlg, loaded>>

\* load_fn_keys()
StoreLoad ==
    /\ phase = "Loading"
    /\ loaded' = load_fn_keys(file)
    /\ phase' = "Done"
    /\ UNCHANGED <<file, fn_keys, key_labels, dlg>>

StoreNext == StoreSave \/ StoreLoad

SpecStore == StoreInit /\ [][StoreNext]_vars

-----------------------------------------------------------------------------
(* The claims *)

\* what the spec calls invalid structured text: text that does not parse, or
\* that parses to a value that is not an object
InvalidStructuredText(t) == ~json_load(t).ok \/ ~IsDict(json_load(t).val)

FKeyNames ==
    << <<"F","1">>, <<"F","2">>, <<"F","3">>, <<"F","4">>, <<"F","5">>, <<"F","6">>,
       <<"F","7">>, <<"F","8">>, <<"F","9">>, <<"F","1","0">>, <<"F","1","1">>,
       <<"F","1","2">> >>

\* C1 (as claimed): start-up on an existing file of invalid structured text, a
\* text that parses to a list, a string or a number included, loads the twelve
\* defaults and reaches Showing.
C1_InvalidTextYieldsDefaults ==
    [][ (phase = "Starting" /\ file.exists /\ InvalidStructuredText(file.text))
        => /\ fn_keys' = default_keys
           /\ Keys(fn_keys') = FKeyNames
           /\ phase' = "Showing" ]_vars

\* C2: with no config file, load_fn_keys returns exactly the twelve default pairs
\* F1..F12, the same value it returns for a file it cannot parse, and start-up
\* leaves the file absent.
C2_MissingFileYieldsDefaults ==
    [][ (phase = "Starting" /\ ~file.exists)
        => /\ loaded' = default_keys
           /\ Keys(loaded') = FKeyNames
           /\ \A t \in UnparseableTexts : load_fn_keys(Holding(t)) = loaded'
           /\ file' = file
           /\ ~file'.exists ]_vars

C2_Witness ==
    /\ phase = "Showing"
    /\ ~file.exists
    /\ dlg = NoDialog
    /\ fn_keys = default_keys

\* C3: after save_fn_keys(m) succeeds, load_fn_keys() returns a map equal to m,
\* for every map m from str to str and whatever the file held before.
C3_RoundTrip == phase = "Done" => PyEq(loaded, fn_keys)

C3_Witness ==
    /\ phase = "Done"
    /\ Len(fn_keys.items) = 2
    /\ \E i \in 1..2 : fn_keys.items[i].v = MkStr(<<"a", "\"", "\\">>)
    /\ \E i \in 1..2 : fn_keys.items[i].v = MkStr(<<>>)
    /\ PyEq(loaded, fn_keys)

\* the fields of a dialog whose text differs from the text it was opened with
Changed(dialog) ==
    { i \in 1..Len(dialog.edits) :
        dialog.edits[i].v # FieldText(dialog.fn_keys.items[i].v) }

\* C4: opening the dialog, typing into it and cancelling change neither the
\* window's map, nor the file (so what load_fn_keys returns is the same), nor a
\* row; the map after the cancel is the map the dialog was opened on.
C4_CancelChangesNothing ==
    [][ /\ (phase' = "EditingOpen" \/ (phase = "EditingOpen" /\ dlg'.result = "Rejected"))
           => /\ fn_keys' = fn_keys
              /\ file' = file
              /\ key_labels' = key_labels
              /\ fn_keys' = dlg'.fn_keys
        /\ (phase = "EditingOpen" /\ dlg'.result = "Rejected") => phase' = "Showing" ]_vars

C4_Witness ==
    /\ phase = "Showing"
    /\ dlg.result = "Rejected"
    /\ Changed(dlg) # {}
    /\ fn_keys = dlg.fn_keys

\* C5 (as claimed): accepting a dialog in which exactly one field k was changed
\* to t gives an in-memory map with the keys of the map before, k mapped to t and
\* every other key mapped as before; the map saved to the file is that map.
C5_OthersUnchanged ==
    [][ (phase = "EditingOpen" /\ dlg'.result = "Accepted" /\ Cardinality(Changed(dlg)) = 1)
        => /\ Keys(fn_keys') = Keys(fn_keys)
           /\ \A i \in 1..Len(fn_keys.items) :
                 fn_keys'.items[i].v = IF i \in Changed(dlg) THEN MkStr(dlg.edits[i].v)
                                       ELSE fn_keys.items[i].v
           /\ phase' = "Showing"
              => /\ file'.exists
                 /\ json_load(file'.text).ok
                 /\ json_load(file'.text).val = fn_keys' ]_vars

\* C5 (amended): as claimed, except that another key whose description was null
\* is mapped to the empty string.
C5_AcceptChangesOneEntry ==
    [][ (phase = "EditingOpen" /\ dlg'.result = "Accepted" /\ Cardinality(Changed(dlg)) = 1)
        => /\ Keys(fn_keys') = Keys(fn_keys)
           /\ \A i \in 1..Len(fn_keys.items) :
                 fn_keys'.items[i].v =
                    IF i \in Changed(dlg) THEN MkStr(dlg.edits[i].v)
                    ELSE IF fn_keys.items[i].v = PyNone THEN MkStr(<<>>)
                    ELSE fn_keys.items[i].v
           /\ phase' = "Showing"
              => /\ file'.exists
                 /\ json_load(file'.text).ok
                 /\ json_load(file'.text).val = fn_keys' ]_vars

C5_Witness ==
    /\ phase = "Showing"
    /\ dlg.result = "Accepted"
    /\ Cardinality(Changed(dlg)) = 1
    /\ Len(fn_keys.items) >= 2
    /\ fn_keys # dlg.fn_keys

AllEditable(d) == \A i \in 1..Len(d.items) : d.items[i].v.t \in {"str", "none"}

\* a step changes the stored map only when a dialog is accepted (start-up is
\* what first sets the map in memory, from the file it leaves alone)
StoreChangesOnlyOnAccept ==
    (fn_keys' # fn_keys \/ file' # file)
    => \/ phase = "Starting" /\ file' = file
       \/ phase = "EditingOpen" /\ dlg'.result = "Accepted"

\* C6 (as claimed): the only transitions are Showing to EditingOpen, EditingOpen
\* to Showing on accept or cancel, and Showing to Terminated; start-up ends in
\* Showing; the stored map changes only on accept.
C6_OnlyThreeStates ==
    [][ /\ \/ phase = "Starting" /\ phase' = "Showing"
           \/ phase = "Showing" /\ phase' \in {"EditingOpen", "Terminated"}
           \/ phase = "EditingOpen" /\ phase' = "EditingOpen"
           \/ phase = "EditingOpen" /\ phase' = "Showing"
                                    /\ dlg'.result \in {"Accepted", "Rejected"}
        /\ StoreChangesOnlyOnAccept ]_vars

\* C6 (amended): the same machine with an error state Crashed besides Terminated:
\* start-up ends in Showing, or in Crashed when the loaded value is no object;
\* the settings action leads to EditingOpen, or to Crashed when a description is
\* neither a str nor null; accept leads to Showing, or to Crashed when the write fails; cancel
\* leads to Showing and dismiss to Terminated; Terminated and Crashed are final;
\* the stored map changes only on accept, and dismiss changes nothing stored.
C6_Lifecycle ==
    [][ /\ CASE phase = "Starting" ->
                    IF IsDict(load_fn_keys(file)) THEN phase' = "Showing"
                    ELSE phase' = "Crashed"
             [] phase = "Showing" ->
                    \/ phase' = "Terminated"
                    \/ phase' = "EditingOpen" /\ AllEditable(fn_keys)
                    \/ phase' = "Crashed" /\ ~AllEditable(fn_keys)
             [] phase = "EditingOpen" ->
                    \/ phase' = "EditingOpen"
                    \/ phase' = "Showing" /\ dlg'.result \in {"Accepted", "Rejected"}
                    \/ phase' = "Crashed" /\ dlg'.result = "Accepted"
             [] OTHER -> FALSE
        /\ StoreChangesOnlyOnAccept
        /\ phase' = "Terminated" => UNCHANGED <<file, fn_keys, key_labels>> ]_vars

C6_Witness ==
    /\ phase = "Terminated"
    /\ dlg.result = "Accepted"
    /\ file.exists
    /\ fn_keys # loaded

\* the keys of the rows, from the top
RowKeys == [i \in 1..Len(key_labels) |-> key_labels[i].k]

\* the place of a function key in the list F1..F12
Place(k) == CHOOSE n \in 1..Len(FKeyNames) : FKeyNames[n] = k

InCanonicalOrder(ks) ==
    \A i, j \in 1..Len(ks) :
        (i < j /\ (\E n \in 1..Len(FKeyNames) : FKeyNames[n] = ks[i])
               /\ (\E n \in 1..Len(FKeyNames) : FKeyNames[n] = ks[j]))
        => Place(ks[i]) < Place(ks[j])

\* C7 (as claimed): the rows are in the order F1, F2, ..., F12 whatever the
\* order of the keys in the config file.
C7_RowsInCanonicalOrder == phase = "Showing" => InCanonicalOrder(RowKeys)

\* C7 (amended): the rows are in the order of the keys of the map loaded at
\* start-up (the order the file lists them in, F1..F12 for the defaults), and
\* stay in that order, which is the order of the in-memory map, for the run.
C7_RowsInLoadedOrder ==
    (phase # "Starting" /\ IsDict(loaded))
    => /\ RowKeys = Keys(loaded)
       /\ RowKeys = Keys(fn_keys)

C7_Witness ==
    /\ phase = "Showing"
    /\ dlg.result = "Accepted"
    /\ fn_keys # loaded
    /\ RowKeys = << <<"F","2">>, <<"F","1">> >>
    /\ ~InCanonicalOrder(RowKeys)

\* the values `if desc` takes for false
Falsy(v) == v \in {MkStr(<<>>), MkInt(<<"0">>), PyNone, PyFalse, MkList(<<>>), MkDict(<<>>)}

\* C8 (as claimed): in Showing there is one row per key of the in-memory map, and
\* it shows the key and its description, or "(No function)" when the description
\* is the empty string.
C8_RowsShowDescriptions ==
    phase = "Showing"
    => /\ Len(key_labels) = Len(fn_keys.items)
       /\ \A i \in 1..Len(key_labels) :
             /\ key_labels[i].k = fn_keys.items[i].k
             /\ key_labels[i].text =
                   RowHead(fn_keys.items[i].k)
                   \o (IF fn_keys.items[i].v = MkStr(<<>>) THEN NoFunction
                       ELSE Format(fn_keys.items[i].v))

\* C8 (amended): as claimed, with "(No function)" shown when the description is
\* the empty string or another value Python takes for false (0, null, false, an
\* empty list, an empty object).
C8_RowsShowMap ==
    phase = "Showing"
    => /\ Len(key_labels) = Len(fn_keys.items)
       /\ \A i \in 1..Len(key_labels) :
             /\ key_labels[i].k = fn_keys.items[i].k
             /\ key_labels[i].text =
                   RowHead(fn_keys.items[i].k)
                   \o (IF Falsy(fn_keys.items[i].v) THEN NoFunction
                       ELSE Format(fn_keys.items[i].v))

C8_Witness ==
    /\ phase = "Showing"
    /\ dlg.result = "Accepted"
    /\ fn_keys # dlg.fn_keys
    /\ \E i \in 1..Len(key_labels) :
          /\ fn_keys.items[i].v = MkStr(<<>>)
          /\ key_labels[i].text = RowHead(key_labels[i].k) \o NoFunction
    /\ \E i \in 1..Len(key_labels) :
          /\ fn_keys.items[i].v = MkStr(<<"a", "\"", "\\">>)
          /\ key_labels[i].text = RowHead(key_labels[i].k) \o <<"a", "\"", "\\">>

\* C9: an accept whose write does not complete ends in Crashed with the rows as
\* they were; nothing happens after Crashed (no retry); start-up on a missing
\* file or on a text json.load raises on ends in Showing.
C9_WriteFailureTerminates ==
    [][ /\ (phase = "EditingOpen" /\ dlg'.result = "Accepted"
                                  /\ file' # Holding(json_dump(fn_keys')))
           => phase' = "Crashed"
        /\ (phase = "EditingOpen" /\ phase' = "Crashed") => key_labels' = key_labels
        /\ phase # "Crashed"
        /\ (phase = "Starting" /\ (~file.exists \/ ~json_load(file.text).ok))
           => phase' = "Showing" ]_vars

C9_Witness ==
    /\ phase = "Crashed"
    /\ dlg.result = "Accepted"
    /\ file # Holding(json_dump(fn_keys))
    /\ key_labels # update_key_labels(key_labels, fn_keys)

\* C10: in every Showing state a fresh load_fn_keys() returns a map equal to the
\* in-memory map.
C10_MemoryMatchesDisk == phase = "Showing" => PyEq(load_fn_keys(file), fn_keys)

C10_Witness ==
    /\ phase = "Showing"
    /\ dlg.result = "Accepted"
    /\ loaded = default_keys
    /\ fn_keys # default_keys
    /\ PyEq(load_fn_keys(file), fn_keys)

====
